---- MODULE Spec2Model ----
(***************************************************************************)
(* Model of the viesparser package: ParseAddress splits a VIES address     *)
(* into Street / City / Zip by country code and newline count.             *)
(*                                                                         *)
(* A Go string is modelled as a sequence of characters, each character a   *)
(* TLA+ string: the character itself when it is ASCII, its code point      *)
(* ("U+03B1") otherwise.  strings.TrimSpace, strings.Split, strings.Count, *)
(* strings.Replace and strings.Join are computed on these sequences.  A    *)
(* run-time panic (index or slice bound out of range) is an outcome of its *)
(* own, recorded in panicValue.                                            *)
(***************************************************************************)
EXTENDS Integers, Sequences, FiniteSets, TLC

VARIABLES countryCode, address, config, fn, pc, result, err, panicValue

vars == <<countryCode, address, config, fn, pc, result, err, panicValue>>

(***************************************************************************)
(* Bounds of the input families.                                           *)
(***************************************************************************)
MaxLen == 4
MaxLenTwoLines == 7
MaxLenComma == 7
MaxLenSK == 6
MaxLenCZ == 7
MaxLenEL == 4

(***************************************************************************)
(* Characters.                                                             *)
(***************************************************************************)
SP == " "
NL == "\n"
TAB == "\t"
CR == "\r"
FF == "\f"
COMMA == ","

\* unicode.IsSpace restricted to the characters the model draws from
WhiteSpace == {SP, NL, TAB, CR, FF}

\* alpha and theta, lower case
ALPHA == "U+03B1"
THETA == "U+03B8"
GreekLetters == {ALPHA, THETA}

(***************************************************************************)
(* error.go                                                                *)
(***************************************************************************)
nil == "nil"
ErrorInvalidOption == "invalid option"
ErrorMissingAddress == "missing address"
ErrorMissingCountryCode == "missing country code"
ErrorUnsupportedCountryCode == "unsupported country code"

Errors == {ErrorInvalidOption, ErrorMissingAddress, ErrorMissingCountryCode,
           ErrorUnsupportedCountryCode}

\* the two run-time errors Go raises for a bad index and a bad slice bound
NoPanic == "none"
IndexOutOfRange == "index out of range"
SliceBoundsOutOfRange == "slice bounds out of range"

(***************************************************************************)
(* Country codes.                                                          *)
(***************************************************************************)
cz == <<"C", "Z">>
sk == <<"S", "K">>
nl == <<"N", "L">>
be == <<"B", "E">>
fr == <<"F", "R">>
pt == <<"P", "T">>
it == <<"I", "T">>
fi == <<"F", "I">>
ro == <<"R", "O">>
si == <<"S", "I">>
at == <<"A", "T">>
pl == <<"P", "L">>
hr == <<"H", "R">>
el == <<"E", "L">>
dk == <<"D", "K">>
ee == <<"E", "E">>

SupportedCountryCodes ==
    <<cz, sk, nl, be, fr, pt, it, fi, ro, si, at, pl, hr, el, dk, ee>>

(***************************************************************************)
(* The values of the two struct types.                                     *)
(***************************************************************************)
ParsedAddress(street, city, zip) == [Street |-> street, City |-> city, Zip |-> zip]

ZeroParsedAddress == ParsedAddress(<<>>, <<>>, <<>>)

Config(ignoreGreek) == [IgnoreGreek |-> ignoreGreek]

(***************************************************************************)
(* The strings and slices functions ParseAddress calls.                    *)
(***************************************************************************)
Min(S) == CHOOSE x \in S : \A y \in S : x <= y

RECURSIVE TrimLeft(_)
TrimLeft(s) ==
    IF s = <<>> THEN s
    ELSE IF Head(s) \in WhiteSpace THEN TrimLeft(Tail(s)) ELSE s

RECURSIVE TrimRight(_)
TrimRight(s) ==
    IF s = <<>> THEN s
    ELSE IF s[Len(s)] \in WhiteSpace THEN TrimRight(SubSeq(s, 1, Len(s) - 1)) ELSE s

\* strings.TrimSpace
TrimSpace(s) == TrimRight(TrimLeft(s))

\* strings.Count(s, sep) for a one-character sep
Count(s, sep) == Cardinality({i \in 1..Len(s) : s[i] = sep})

\* strings.Split(s, sep) for a one-character sep: Count(s, sep) + 1 parts
RECURSIVE Split(_, _)
Split(s, sep) ==
    LET idx == {i \in 1..Len(s) : s[i] = sep}
    IN  IF idx = {} THEN <<s>>
        ELSE LET i == Min(idx)
             IN  <<SubSeq(s, 1, i - 1)>> \o Split(SubSeq(s, i + 1, Len(s)), sep)

\* strings.Index, 1-based; 0 when old does not occur
Index(s, old) ==
    LET idx == {i \in 1..(Len(s) - Len(old) + 1) : SubSeq(s, i, i + Len(old) - 1) = old}
    IN  IF idx = {} THEN 0 ELSE Min(idx)

\* strings.Replace(s, old, new, n) for a non-empty old and n >= 0
RECURSIVE Replace(_, _, _, _)
Replace(s, old, new, n) ==
    LET i == Index(s, old)
    IN  IF n = 0 \/ i = 0 THEN s
        ELSE SubSeq(s, 1, i - 1) \o new
             \o Replace(SubSeq(s, i + Len(old), Len(s)), old, new, n - 1)

\* strings.Join(parts, sep)
RECURSIVE Join(_, _)
Join(parts, sep) ==
    IF parts = <<>> THEN <<>>
    ELSE IF Len(parts) = 1 THEN parts[1]
    ELSE parts[1] \o sep \o Join(Tail(parts), sep)

\* slices.Contains
Contains(list, x) == \E i \in 1..Len(list) : list[i] = x

(***************************************************************************)
(* The literals of ParseAddress.                                           *)
(***************************************************************************)
Slovensko == <<"S", "l", "o", "v", "e", "n", "s", "k", "o">>
MestskaCast == <<"m", "e", "s", "t", "s", "k", "U+00E1", " ", "U+010D", "a", "s", "U+0165", " ">>
MC == <<"m", ".", " ", "U+010D", ".", " ">>

(***************************************************************************)
(* What a call produces: a return value pair, or a panic.                  *)
(***************************************************************************)
Return(r, e) == [result |-> r, err |-> e, panic |-> NoPanic]
Panic(p) == [result |-> ZeroParsedAddress, err |-> nil, panic |-> p]

(***************************************************************************)
(* The rules of ParseAddress, one per branch.  Each takes the trimmed      *)
(* address.                                                                *)
(***************************************************************************)
\* RuleTwoLines with the city taken as all of line 2 after the zip
RuleTwoLines_RestAsCity(a) ==
    LET parts == Split(a, NL)
        locationParts == Split(parts[2], SP)
    IN  IF Len(locationParts) < 2 THEN Panic(IndexOutOfRange)
        ELSE Return(ParsedAddress(TrimSpace(parts[1]),
                                  TrimSpace(Join(Tail(locationParts), <<SP>>)),
                                  TrimSpace(locationParts[1])), nil)

\* NL, BE, FR, FI, AT, PL, DK with one newline
RuleTwoLines(a) ==
    LET parts == Split(a, NL)
        locationParts == Split(parts[2], SP)
    IN  IF Len(locationParts) < 2 THEN Panic(IndexOutOfRange)
        ELSE Return(ParsedAddress(TrimSpace(parts[1]),
                                  TrimSpace(locationParts[2]),
                                  TrimSpace(locationParts[1])), nil)

\* SI, HR with no newline
RuleComma(a) ==
    LET parts == Split(a, COMMA)
        street0 == TrimSpace(parts[1])
        street == IF Len(parts) = 3
                  THEN street0 \o <<COMMA, SP>> \o TrimSpace(parts[2])
                  ELSE street0
        locationParts == Split(parts[Len(parts)], SP)
    IN  IF Len(locationParts) < 2 THEN Panic(IndexOutOfRange)
        ELSE Return(ParsedAddress(street, locationParts[2], locationParts[1]), nil)

\* the two strings.Replace calls on the SK city
StripDistrict(city) == Replace(Replace(city, MestskaCast, <<>>, 1), MC, <<>>, 1)

\* RuleSK1 without the assignment that empties the street
RuleSK1_KeepsStreet(a) ==
    LET parts == Split(a, NL)
        street == TrimSpace(parts[1])
        lastLoc == Split(parts[Len(parts)], SP)
        firstLoc == Split(parts[1], SP)
    IN  IF parts[2] # Slovensko
        THEN IF Len(lastLoc) < 2 THEN Panic(IndexOutOfRange)
             ELSE Return(ParsedAddress(TrimSpace(street),
                                       TrimSpace(StripDistrict(lastLoc[2])),
                                       TrimSpace(lastLoc[1])), nil)
        ELSE IF Len(firstLoc) < 2 THEN Panic(IndexOutOfRange)
             ELSE Return(ParsedAddress(TrimSpace(street),
                                       TrimSpace(StripDistrict(firstLoc[2])),
                                       TrimSpace(firstLoc[1])), nil)

\* SK with one newline
RuleSK1(a) ==
    LET parts == Split(a, NL)
        street == TrimSpace(parts[1])
        lastLoc == Split(parts[Len(parts)], SP)
        firstLoc == Split(parts[1], SP)
    IN  IF parts[2] # Slovensko
        THEN IF Len(lastLoc) < 2 THEN Panic(IndexOutOfRange)
             ELSE Return(ParsedAddress(TrimSpace(street),
                                       TrimSpace(StripDistrict(lastLoc[2])),
                                       TrimSpace(lastLoc[1])), nil)
        ELSE IF Len(firstLoc) < 2 THEN Panic(IndexOutOfRange)
             ELSE Return(ParsedAddress(TrimSpace(<<>>),
                                       TrimSpace(StripDistrict(firstLoc[2])),
                                       TrimSpace(firstLoc[1])), nil)

\* SK with two newlines
RuleSK2(a) ==
    LET parts == Split(a, NL)
        street == TrimSpace(parts[1])
        locationParts == Split(parts[Len(parts)], SP)
    IN  IF Len(locationParts) < 2 THEN Panic(IndexOutOfRange)
        ELSE Return(ParsedAddress(TrimSpace(street),
                                  TrimSpace(StripDistrict(locationParts[2])),
                                  TrimSpace(locationParts[1])), nil)

\* CZ with one newline
RuleCZ1(a) ==
    LET parts == Split(a, NL)
        street == TrimSpace(parts[1])
        lastParts == Split(TrimSpace(parts[Len(parts)]), SP)
        n == Len(lastParts)
    IN  IF n < 2 THEN Panic(SliceBoundsOutOfRange)
        ELSE Return(ParsedAddress(street,
                                  TrimSpace(Join(SubSeq(lastParts, n - 1, n - 1), <<>>)),
                                  TrimSpace(Join(SubSeq(lastParts, 1, n - 2), <<>>))), nil)

\* CZ with two newlines
RuleCZ2(a) ==
    LET parts == Split(a, NL)
        lastParts == Split(TrimSpace(parts[Len(parts)]), SP)
        n == Len(lastParts)
    IN  IF n < 2 THEN Panic(SliceBoundsOutOfRange)
        ELSE Return(ParsedAddress(TrimSpace(parts[1]),
                                  TrimSpace(parts[2]),
                                  TrimSpace(Join(SubSeq(lastParts, 1, n - 2), <<>>))), nil)

\* CZ with any other newline count
RuleCZOther == Return(ZeroParsedAddress, ErrorInvalidOption)

\* NoRule with the error of the unsupported path
NoRule_Unsupported == Return(ZeroParsedAddress, ErrorUnsupportedCountryCode)

\* the final return statement, reached when no rule returned
NoRule == Return(ZeroParsedAddress, nil)

\* RuleSK ending, as the CZ block does, in an error
RuleSK_InvalidOption(a, newlinesCount) ==
    IF newlinesCount = 1 THEN RuleSK1(a)
    ELSE IF newlinesCount = 2 THEN RuleSK2(a)
    ELSE Return(ZeroParsedAddress, ErrorInvalidOption)

\* the SK block: falls out of the if when the newline count is neither 1 nor 2
RuleSK(a, newlinesCount) ==
    IF newlinesCount = 1 THEN RuleSK1(a)
    ELSE IF newlinesCount = 2 THEN RuleSK2(a)
    ELSE NoRule

\* the CZ block
RuleCZ(a, newlinesCount) ==
    IF newlinesCount = 1 THEN RuleCZ1(a)
    ELSE IF newlinesCount = 2 THEN RuleCZ2(a)
    ELSE RuleCZOther

\* the two emptiness checks, made on the inputs as passed
CheckInputs(c, a) ==
    IF Len(c) = 0 THEN ErrorMissingCountryCode
    ELSE IF Len(a) = 0 THEN ErrorMissingAddress
    ELSE nil

\* the rule selection, on the trimmed inputs
Dispatch(c, a) ==
    LET newlinesCount == Count(a, NL)
    IN  IF ~Contains(SupportedCountryCodes, c)
        THEN Return(ZeroParsedAddress, ErrorUnsupportedCountryCode)
        ELSE IF newlinesCount = 1 /\ Contains(<<nl, be, fr, fi, at, pl, dk>>, c)
        THEN RuleTwoLines(a)
        ELSE IF newlinesCount = 0 /\ Contains(<<si, hr>>, c)
        THEN RuleComma(a)
        ELSE IF c = sk THEN RuleSK(a, newlinesCount)
        ELSE IF c = cz THEN RuleCZ(a, newlinesCount)
        ELSE NoRule

\* ParseAddress(countryCode, address string, config ...Config); cfg is the
\* variadic slice, which the body never reads
ParseAddress(c, a, cfg) ==
    IF CheckInputs(c, a) # nil
    THEN Return(ZeroParsedAddress, CheckInputs(c, a))
    ELSE Dispatch(TrimSpace(c), TrimSpace(a))

\* MustParseAddress(countryCode, address string): panics with the error
MustParseAddress(c, a) ==
    LET o == ParseAddress(c, a, <<>>)
    IN  IF o.panic = NoPanic /\ o.err # nil THEN Panic(o.err) ELSE o

(***************************************************************************)
(* Inputs.  An address is a concatenation of pieces, a piece being one     *)
(* character or one of the literals the rules look for.                    *)
(***************************************************************************)
RECURSIVE Concat(_)
Concat(ps) == IF ps = <<>> THEN <<>> ELSE Head(ps) \o Concat(Tail(ps))

\* a code is passed bare or with a space on both sides
Pads == {<<>>, <<SP>>}

\* every supported code, an unsupported one, a lower-case one and the empty one
CodeCores == {SupportedCountryCodes[i] : i \in 1..Len(SupportedCountryCodes)}
             \cup {<<>>, <<"X", "X">>, <<"c", "z">>}

CodeInputs == {l \o c \o l : l \in Pads, c \in CodeCores}
              \cup {<<TAB>> \o nl, sk \o <<NL>>, <<TAB, SP>>}

\* the variadic config: omitted, or one Config
Configs == {<<>>, <<Config(FALSE)>>, <<Config(TRUE)>>}

GeneralPieces == {<<"a">>, <<SP>>, <<NL>>, <<TAB>>, <<COMMA>>}
TwoLinesPieces == {<<"a">>, <<SP>>, <<NL>>, <<TAB>>}
CommaPieces == {<<"a">>, <<"b">>, <<SP>>, <<COMMA>>}
SKPieces == {<<"a">>, <<"b">>, <<SP>>, <<NL>>, Slovensko}
CZPieces == {<<"a">>, <<"b">>, <<SP>>, <<NL>>}
ELPieces == {<<ALPHA>>, <<"a">>, <<SP>>, <<NL>>}

(***************************************************************************)
(* The state machine: one call of ParseAddress or of MustParseAddress on   *)
(* the chosen inputs.                                                      *)
(***************************************************************************)
\* the calls of one family: a code, an address of at most n pieces, a config
Calls(codes, pieces, n, cfgs) ==
    \E c \in codes, k \in 0..n, cfg \in cfgs :
        \E ps \in [1..k -> pieces] :
            /\ countryCode = c
            /\ address = Concat(ps)
            /\ config = cfg

\* every code with short addresses, and longer addresses for the codes that
\* have a rule; the configuration is passed with the Greek addresses
Init ==
    /\ \/ Calls(CodeInputs, GeneralPieces, MaxLen, {<<>>})
       \/ Calls({nl, be, fr, fi, at, pl, dk}, TwoLinesPieces, MaxLenTwoLines, {<<>>})
       \/ Calls({si, hr}, CommaPieces, MaxLenComma, {<<>>})
       \/ Calls({sk}, SKPieces, MaxLenSK, {<<>>})
       \/ Calls({cz}, CZPieces, MaxLenCZ, {<<>>})
       \/ Calls({el, nl, sk}, ELPieces, MaxLenEL, Configs)
    /\ fn = "none"
    /\ pc = "call"
    /\ result = ZeroParsedAddress
    /\ err = nil
    /\ panicValue = NoPanic

Finish(name, o) ==
    /\ fn' = name
    /\ pc' = IF o.panic = NoPanic THEN "returned" ELSE "panicked"
    /\ result' = o.result
    /\ err' = o.err
    /\ panicValue' = o.panic
    /\ UNCHANGED <<countryCode, address, config>>

CallParseAddress ==
    /\ pc = "call"
    /\ Finish("ParseAddress", ParseAddress(countryCode, address, config))

CallMustParseAddress ==
    /\ pc = "call"
    /\ config = <<>>
    /\ Finish("MustParseAddress", MustParseAddress(countryCode, address))

Next == CallParseAddress \/ CallMustParseAddress

Spec == Init /\ [][Next]_vars

(***************************************************************************)
(* What the properties speak of: the trimmed inputs of the call, the lines *)
(* of the trimmed address and the tokens of a line.  These are written by  *)
(* position, apart from the operators ParseAddress is built from.          *)
(***************************************************************************)
Strip(s) ==
    LET keep == {i \in 1..Len(s) : s[i] \notin WhiteSpace}
    IN  IF keep = {} THEN <<>>
        ELSE SubSeq(s, Min(keep), CHOOSE i \in keep : \A j \in keep : j <= i)

code == Strip(countryCode)
text == Strip(address)

Positions(s, ch) == {i \in 1..Len(s) : s[i] = ch}
Newlines == Cardinality(Positions(text, NL))

\* the k-th piece of s cut at every ch, for k in 1..(number of ch in s)+1
Piece(s, ch, k) ==
    LET cuts == Positions(s, ch)
        before(i) == Cardinality({j \in cuts : j < i})
        from == IF k = 1 THEN 1 ELSE 1 + CHOOSE i \in cuts : before(i) = k - 2
        to == IF k = Cardinality(cuts) + 1 THEN Len(s)
              ELSE (CHOOSE i \in cuts : before(i) = k - 1) - 1
    IN  SubSeq(s, from, to)

Line(k) == Piece(text, NL, k)
Token(line, k) == Piece(line, SP, k)
Tokens(line) == Cardinality(Positions(line, SP)) + 1

HasGreek(s) == \E i \in 1..Len(s) : s[i] \in GreekLetters
IgnoreGreek == config # <<>> /\ config[1].IgnoreGreek

Parsed == fn = "ParseAddress"
Returned == Parsed /\ pc = "returned"
Succeeded == Returned /\ err = nil

TwoLineCodes == {nl, be, fr, fi, at, pl, dk}
CommaCodes == {si, hr}
NoRuleCodes == {pt, it, ro, el, ee}
Supported == {cz, sk} \cup TwoLineCodes \cup CommaCodes \cup NoRuleCodes

(***************************************************************************)
(* C1                                                                      *)
(***************************************************************************)
\* C1: ParseAddress validates the trimmed inputs: MissingCountryCode when the
\* trimmed country code is empty, MissingAddress when the trimmed address is
\* empty, UnsupportedCountryCode when the trimmed code is not one of the 16
\* codes, and none of the three for a supported code with an address.
C1_ValidatesTrimmedInputs ==
    Parsed =>
        /\ code = <<>> => pc = "returned" /\ err = ErrorMissingCountryCode
        /\ code # <<>> /\ text = <<>> => pc = "returned" /\ err = ErrorMissingAddress
        /\ code # <<>> /\ text # <<>> /\ code \notin Supported
              => pc = "returned" /\ err = ErrorUnsupportedCountryCode
        /\ code \in Supported /\ text # <<>>
              => err \notin {ErrorMissingCountryCode, ErrorMissingAddress,
                             ErrorUnsupportedCountryCode}

(***************************************************************************)
(* C2                                                                      *)
(***************************************************************************)
\* C2: for EL and an address with Greek text, the City returned without
\* IgnoreGreek is a non-empty Latin text and the City returned with
\* IgnoreGreek still holds Greek letters; for any other code the flag does
\* not change the outcome.
C2_IgnoreGreekDecidesCity ==
    Returned =>
        /\ code = el /\ HasGreek(text) /\ ~IgnoreGreek
              => result.City # <<>> /\ ~HasGreek(result.City)
        /\ code = el /\ HasGreek(text) /\ IgnoreGreek => HasGreek(result.City)
        /\ code # el
              => <<result, err>> =
                    <<ParseAddress(countryCode, address, <<>>).result,
                      ParseAddress(countryCode, address, <<>>).err>>

(***************************************************************************)
(* C3                                                                      *)
(***************************************************************************)
C3_Case ==
    /\ Parsed
    /\ code \in TwoLineCodes
    /\ Newlines = 1
    /\ Tokens(Line(2)) >= 2

\* C3 as stated: for NL, BE, FR, FI, AT, PL, DK and an address of two lines
\* whose second line has a space, the call succeeds with Street = line 1
\* trimmed, Zip = the text of line 2 before its first space and City = the
\* second space-delimited token of line 2, both as they stand.
C3_TokensAsTheyStand ==
    C3_Case =>
        /\ Succeeded
        /\ result.Street = Strip(Line(1))
        /\ result.Zip = Token(Line(2), 1)
        /\ result.City = Token(Line(2), 2)

\* C3 amended: the same, with Zip and City trimmed of surrounding whitespace.
C3_TokensTrimmed ==
    C3_Case =>
        /\ Succeeded
        /\ result.Street = Strip(Line(1))
        /\ result.Zip = Strip(Token(Line(2), 1))
        /\ result.City = Strip(Token(Line(2), 2))

\* a two-line address whose second line has three tokens, the third dropped
C3_Witness ==
    /\ C3_Case
    /\ Succeeded
    /\ Tokens(Line(2)) >= 3
    /\ Token(Line(2), 3) # <<>>
    /\ result.Zip # <<>>
    /\ result.City # <<>>
    /\ result.Street # <<>>

(***************************************************************************)
(* C4                                                                      *)
(***************************************************************************)
\* the address is "<street>, <zip> <city>"
C4_TwoParts ==
    /\ Cardinality(Positions(text, COMMA)) = 1
    /\ Piece(text, COMMA, 1) # <<>>
    /\ Tokens(Piece(text, COMMA, 2)) = 3
    /\ Token(Piece(text, COMMA, 2), 1) = <<>>
    /\ Token(Piece(text, COMMA, 2), 2) # <<>>
    /\ Token(Piece(text, COMMA, 2), 3) # <<>>

\* C4: for SI and HR, a one-line address "<street>, <zip> <city>" gives
\* Street = <street>, Zip = <zip>, City = <city>; with three comma-separated
\* parts Street is part 0 + ", " + part 1 and Zip and City are the first and
\* second space-tokens of the last part.
C4_CommaAddress ==
    Parsed /\ code \in CommaCodes /\ Newlines = 0 =>
        /\ C4_TwoParts =>
              /\ Succeeded
              /\ result.Street = Strip(Piece(text, COMMA, 1))
              /\ result.Zip = Token(Piece(text, COMMA, 2), 2)
              /\ result.City = Token(Piece(text, COMMA, 2), 3)
        /\ Cardinality(Positions(text, COMMA)) = 2
           /\ Tokens(Piece(text, COMMA, 3)) >= 2 =>
              /\ Succeeded
              /\ result.Street = Strip(Piece(text, COMMA, 1)) \o <<COMMA, SP>>
                                    \o Strip(Piece(text, COMMA, 2))
              /\ result.Zip = Token(Piece(text, COMMA, 3), 1)
              /\ result.City = Token(Piece(text, COMMA, 3), 2)

C5_Case ==
    /\ Parsed
    /\ code = sk
    /\ Newlines = 1
    /\ Line(2) = Slovensko
    /\ Tokens(Line(1)) >= 2

C6_Case ==
    /\ Parsed
    /\ code = sk
    /\ address # <<>>
    /\ Newlines \notin {1, 2}

\* C6 as stated: for SK and an address whose newline count is neither 1 nor
\* 2, the call fails with UnsupportedCountryCode and a zero-valued result.
C6_SKOtherCountsUnsupported ==
    C6_Case =>
        /\ pc = "returned"
        /\ err = ErrorUnsupportedCountryCode
        /\ result = ZeroParsedAddress

\* C6 amended: for SK and a non-empty address whose newline count is neither
\* 1 nor 2, the call returns a zero-valued result and no error.
C6_SKOtherCountsEmpty ==
    C6_Case =>
        /\ pc = "returned"
        /\ err = nil
        /\ result = ZeroParsedAddress

\* an SK address of four lines was parsed
C6_Witness == C6_Case /\ Returned /\ Newlines = 3 /\ text # <<>>

(***************************************************************************)
(* C7                                                                      *)
(***************************************************************************)
\* C7: the call fails with InvalidOption exactly when the trimmed code is CZ
\* and the trimmed address is non-empty with a newline count other than 1
\* and 2.
C7_InvalidOptionExactlyCZ ==
    Parsed =>
        (err = ErrorInvalidOption
            <=> code = cz /\ text # <<>> /\ Newlines \notin {1, 2})

(***************************************************************************)
(* C8                                                                      *)
(***************************************************************************)
C8_Case ==
    /\ Parsed
    /\ address # <<>>
    /\ \/ code \in NoRuleCodes
       \/ code \in TwoLineCodes /\ Newlines # 1
       \/ code \in CommaCodes /\ Newlines # 0

\* C8: for PT, IT, RO, EL, EE with any non-empty address, for NL, BE, FR,
\* FI, AT, PL, DK with a newline count other than 1 and for SI, HR with a
\* newline count other than 0, the call returns Street, Zip and City all
\* empty and no error.
C8_NoRuleEmptyResult ==
    C8_Case =>
        /\ pc = "returned"
        /\ err = nil
        /\ result = ZeroParsedAddress

\* a code without a rule was given a two-line address with a space in line 2
C8_Witness ==
    /\ C8_Case
    /\ Returned
    /\ code \in NoRuleCodes
    /\ Newlines = 1
    /\ Tokens(Line(2)) >= 2

(***************************************************************************)
(* C9                                                                      *)
(***************************************************************************)
\* C9: the call on an address and the call on the trimmed address have the
\* same outcome, result and error alike.
C9_TrimmedAddressSameOutcome ==
    Parsed =>
        [result |-> result, err |-> err, panic |-> panicValue]
            = ParseAddress(countryCode, Strip(address), config)

(***************************************************************************)
(* C10                                                                     *)
(***************************************************************************)
\* C10: every call returns, with no error or with a zero-valued result and
\* one of the four errors; none ends in an index or slice bound panic.
C10_Total ==
    Parsed =>
        /\ pc = "returned"
        /\ \/ err = nil
           \/ err \in Errors /\ result = ZeroParsedAddress

====
